---- MODULE Spec2Model ----
(***************************************************************************)
(* Model of jsonvalidator (src/jsonvalidator/__init__.py): compiling a     *)
(* schema-by-example into a tree of handlers and validating data with it.  *)
(*                                                                         *)
(* Python values are records [k |-> <type name>, v |-> <payload>].         *)
(* Strings are sequences of one-character strings, so that startswith,     *)
(* endswith, path formatting and JSON parsing are computed, not assumed.   *)
(* A float payload n stands for the float n/2 (0 is 0.0, 3 is 1.5).        *)
(* Exception messages keep their format string, the key they are           *)
(* formatted with and the text passed to _keyMessage; the interpolation    *)
(* of the offending data value ("%s" % data) is left out.                  *)
(***************************************************************************)
EXTENDS Integers, Sequences, FiniteSets, TLC

VARIABLES schema, keyOrder, validator, pending, outcome

vars == <<schema, keyOrder, validator, pending, outcome>>

----------------------------------------------------------------------------
(* Python values *)

PyNone == [k |-> "NoneType", v |-> 0]
PyBool(b) == [k |-> "bool", v |-> b]
PyInt(n) == [k |-> "int", v |-> n]
PyFloat(n) == [k |-> "float", v |-> n]
PyStr(s) == [k |-> "str", v |-> s]
PyUnicode(s) == [k |-> "unicode", v |-> s]
PyList(s) == [k |-> "list", v |-> s]
PyDict(f) == [k |-> "dict", v |-> f]
PermissiveObject(f) == [k |-> "PermissiveObject", v |-> f]
PySet(s) == [k |-> "set", v |-> s]

type(x) == x.k

StringTypes == {"str", "unicode"}

\* isinstance with the subclass relations of the Python 2 types involved:
\* bool is a subclass of int, PermissiveObject of dict, str and unicode of
\* basestring.
isinstance(x, cls) ==
  \/ x.k = cls
  \/ cls = "int" /\ x.k = "bool"
  \/ cls = "dict" /\ x.k = "PermissiveObject"
  \/ cls = "basestring" /\ x.k \in StringTypes

\* Python truth value of x ("if x", "not x").
Truthy(x) ==
  CASE x.k = "NoneType" -> FALSE
    [] x.k = "bool" -> x.v
    [] x.k \in {"int", "long", "float"} -> x.v # 0
    [] x.k \in StringTypes -> Len(x.v) > 0
    [] x.k = "list" -> Len(x.v) > 0
    [] x.k \in {"dict", "PermissiveObject"} -> DOMAIN x.v # {}
    [] x.k = "set" -> x.v # {}
    [] OTHER -> TRUE

startswith(s, prefix) ==
  Len(s) >= Len(prefix) /\ SubSeq(s, 1, Len(prefix)) = prefix

endswith(s, suffix) ==
  Len(s) >= Len(suffix) /\ SubSeq(s, Len(s) - Len(suffix) + 1, Len(s)) = suffix

Digits == <<"0", "1", "2", "3", "4", "5", "6", "7", "8", "9">>

RECURSIVE IntToStr(_)
\* "%s" % idx for a non-negative integer.
IntToStr(n) ==
  IF n < 10 THEN <<Digits[n + 1]>>
  ELSE IntToStr(n \div 10) \o <<Digits[(n % 10) + 1]>>

----------------------------------------------------------------------------
(* Exceptions and results.  A call either returns a value or raises. *)

NoMessage == [fmt |-> "", at |-> PyNone, rest |-> ""]

Returns(value) == [kind |-> "return", message |-> NoMessage, value |-> value]

Raises(kind, message) == [kind |-> kind, message |-> message, value |-> PyNone]

_keyMessage(key, rest) ==
  IF Truthy(key)
    THEN [fmt |-> "Data at %s %s", at |-> key, rest |-> rest]
    ELSE [fmt |-> "Data %s", at |-> PyNone, rest |-> rest]

\* nextkey % seg, with nextkey = '%s/%%s' % key if key else '%s'.
NextKey(key, seg) ==
  IF Truthy(key) THEN PyStr(key.v \o <<"/">> \o seg) ELSE PyStr(seg)

----------------------------------------------------------------------------
(* Schema compilation *)

HandlerTypes ==
  {"str", "unicode", "int", "long", "float", "dict", "list", "bool",
   "NoneType", "SRE_Pattern", "PermissiveObject", "OptionalFunction"}

HANDLERS_BY_TYPE ==
  [t \in HandlerTypes |->
     CASE t \in {"str", "unicode"} -> "StringHandler"
       [] t \in {"int", "long", "float"} -> "NumberHandler"
       [] t = "dict" -> "ObjectHandler"
       [] t = "list" -> "ArrayHandler"
       [] t = "bool" -> "BooleanHandler"
       [] t = "NoneType" -> "NullHandler"
       [] t = "SRE_Pattern" -> "ReHandler"
       [] t = "PermissiveObject" -> "PermissiveObjectHandler"
       [] t = "OptionalFunction" -> "OptionalFunctionHandler"]

\* The keys of HANDLERS_BY_TYPE whose handler class is the class of vdor.
getValidatorSynonyms(vdor) ==
  {key \in DOMAIN HANDLERS_BY_TYPE : HANDLERS_BY_TYPE[key] = vdor.cls}

\* A handler without children (BaseHandler.__init__ only).
BaseHandler_init(cls, required) ==
  [cls |-> cls, required |-> required, handlers |-> <<>>, validKeys |-> PyNone]

\* tpe as getValidator computes it before the table lookup.
getValidator_tpe(example) ==
  IF type(example) \in StringTypes
    THEN IF startswith(example.v, <<"n", "u", "m", "b", "e", "r">>) THEN "int"
         ELSE IF startswith(example.v, <<"b", "o", "o", "l">>) THEN "bool"
         ELSE type(example)
    ELSE type(example)

getValidator_requiredAlways(example) == TRUE

\* required as getValidator computes it.
getValidator_required(example) ==
  IF type(example) \in StringTypes THEN ~endswith(example.v, <<"?">>) ELSE TRUE

RECURSIVE getValidator(_)
RECURSIVE ArrayHandler_handlers(_, _)
RECURSIVE ArrayHandler_handlersFirstWins(_, _)

ArrayHandler_handlersFirstWins(example, n) ==
  IF n = 0 THEN <<>>
  ELSE LET prev == ArrayHandler_handlersFirstWins(example, n - 1)
           handler == getValidator(example.v[n])
           syns == getValidatorSynonyms(handler)
       IN [syn \in (DOMAIN prev) \cup syns |->
             IF syn \in DOMAIN prev THEN prev[syn] ELSE handler]

\* self.handlers after the first n elements of the schema array were
\* compiled and registered under their synonyms.
ArrayHandler_handlers(example, n) ==
  IF n = 0 THEN <<>>
  ELSE LET prev == ArrayHandler_handlers(example, n - 1)
           handler == getValidator(example.v[n])
           syns == getValidatorSynonyms(handler)
       IN [syn \in (DOMAIN prev) \cup syns |->
             IF syn \in syns THEN handler ELSE prev[syn]]

ArrayHandler_init(example, required) ==
  [cls |-> "ArrayHandler", required |-> required,
   handlers |-> ArrayHandler_handlers(example, Len(example.v)),
   validKeys |-> PyNone]

ObjectHandler_init(example, required) ==
  [cls |-> "ObjectHandler", required |-> required,
   handlers |-> [key \in DOMAIN example.v |-> getValidator(example.v[key])],
   validKeys |-> PySet(DOMAIN example.v)]

PermissiveObjectHandler_init(example, required) ==
  [ObjectHandler_init(example, required) EXCEPT
     !.cls = "PermissiveObjectHandler", !.validKeys = PyNone]

\* Only schemas of JSON types and PermissiveObject are compiled here, so the
\* table lookup always finds a handler class.
getValidator(example) ==
  LET required == getValidator_required(example)
      handler == HANDLERS_BY_TYPE[getValidator_tpe(example)]
  IN CASE handler = "ObjectHandler" -> ObjectHandler_init(example, required)
       [] handler = "PermissiveObjectHandler" ->
            PermissiveObjectHandler_init(example, required)
       [] handler = "ArrayHandler" -> ArrayHandler_init(example, required)
       [] OTHER -> BaseHandler_init(handler, required)

----------------------------------------------------------------------------
(* Validation *)

\* data.get(key, None)
DictGet(data, key) == IF key \in DOMAIN data.v THEN data.v[key] ELSE PyNone

\* Iteration order of the dictionary self.handlers: the keys in the order
\* keyOrder gives them.
DictItems(handlers) == SelectSeq(keyOrder, LAMBDA key : key \in DOMAIN handlers)

BaseHandler_validate(h, data, key) ==
  IF type(data) = "NoneType" /\ h.required
    THEN IF Truthy(key)
           THEN Raises("JSONValidationError",
                       [fmt |-> "Required field with key \"%s\" is missing",
                        at |-> key, rest |-> ""])
           ELSE Raises("JSONValidationError",
                       [fmt |-> "Required field is missing",
                        at |-> PyNone, rest |-> ""])
    ELSE Returns(data)

StringHandler_validate(h, data, key) ==
  LET super == BaseHandler_validate(h, data, key)
  IN IF super.kind # "return" THEN super
     ELSE IF Truthy(data) /\ ~isinstance(data, "basestring")
       THEN Raises("JSONValidationError", _keyMessage(key, "is not a string: %s"))
       ELSE Returns(data)

NumberHandler_validate(h, data, key) ==
  LET super == BaseHandler_validate(h, data, key)
  IN IF super.kind # "return" THEN super
     ELSE IF /\ Truthy(data)
             /\ ~(\/ isinstance(data, "int")
                  \/ isinstance(data, "long")
                  \/ isinstance(data, "float"))
       THEN Raises("JSONValidationError", _keyMessage(key, "is not a number: %s"))
       ELSE Returns(data)

BooleanHandler_validate(h, data, key) ==
  LET super == BaseHandler_validate(h, data, key)
  IN IF super.kind # "return" THEN super
     ELSE IF type(data) # "NoneType" /\ ~isinstance(data, "bool")
       THEN Raises("JSONValidationError", _keyMessage(key, "is not a boolean: %s"))
       ELSE Returns(data)

NullHandler_validateSuper(h, data, key) ==
  LET super == BaseHandler_validate(h, data, key)
  IN IF super.kind # "return" THEN super
     ELSE IF ~isinstance(data, "NoneType")
       THEN Raises("JSONValidationError", _keyMessage(key, "is not null: %s"))
       ELSE Returns(data)

NullHandler_validate(h, data, key) ==
  IF ~isinstance(data, "NoneType")
    THEN Raises("JSONValidationError", _keyMessage(key, "is not null: %s"))
    ELSE Returns(data)

ObjectHandler_illegalKeyNotNone(h, data) ==
  /\ type(h.validKeys) # "NoneType"
  /\ \E key \in DOMAIN data.v : key \notin h.validKeys.v

\* The check of lines 209-213: some key of data is outside self.validKeys,
\* and self.validKeys is true (neither None nor the empty set).
ObjectHandler_illegalKey(h, data) ==
  /\ Truthy(h.validKeys)
  /\ \E key \in DOMAIN data.v : key \notin h.validKeys.v

ArrayHandler_emptyNoOptional(h, data) ==
  /\ ~(\E t \in DOMAIN h.handlers :
         ~h.handlers[t].required \/ h.handlers[t].cls = "NullHandler")
  /\ ~Truthy(data)

\* The condition of line 241: no handler registered for NoneType, and the
\* data array is empty.
ArrayHandler_empty(h, data) ==
  /\ ~("NoneType" \in DOMAIN h.handlers)
  /\ ~Truthy(data)

RECURSIVE Handler_call(_, _, _)
RECURSIVE ObjectHandler_fields(_, _, _, _, _)
RECURSIVE ArrayHandler_elements(_, _, _, _)

\* The loop of lines 205-207 from the i-th item on: the first exception a
\* field's handler raises, or a return when none raises.
ObjectHandler_fields(h, data, mykey, items, i) ==
  IF i > Len(items) THEN Returns(data)
  ELSE LET key == items[i]
           keydata == Handler_call(h.handlers[key], DictGet(data, key),
                                   NextKey(mykey, key))
       IN IF keydata.kind # "return" THEN keydata
          ELSE ObjectHandler_fields(h, data, mykey, items, i + 1)

ObjectHandler_validate(h, data, mykey) ==
  LET super == BaseHandler_validate(h, data, mykey)
  IN IF super.kind # "return" THEN super
     ELSE IF ~isinstance(data, "dict")
       THEN Raises("JSONValidationError", _keyMessage(mykey, "is not an object: %s"))
     ELSE LET fields == ObjectHandler_fields(h, data, mykey, DictItems(h.handlers), 1)
          IN IF fields.kind # "return" THEN fields
             ELSE IF ObjectHandler_illegalKey(h, data)
               THEN Raises("JSONValidationError",
                           _keyMessage(mykey, "contains an illegal key: %s"))
               ELSE Returns(data)

\* The loop of lines 250-256 from the i-th element on (idx = i - 1).
ArrayHandler_elements(h, data, key, i) ==
  IF i > Len(data.v) THEN Returns(data)
  ELSE LET value == data.v[i]
           at == NextKey(key, IntToStr(i - 1))
       IN IF type(value) \notin DOMAIN h.handlers
            THEN Raises("JSONValidationError",
                        [fmt |-> "Element at %s has invalid type %s: %s",
                         at |-> at, rest |-> type(value)])
          ELSE LET r == Handler_call(h.handlers[type(value)], value, at)
               IN IF r.kind # "return" THEN r
                  ELSE ArrayHandler_elements(h, data, key, i + 1)

ArrayHandler_validate(h, data, key) ==
  LET super == BaseHandler_validate(h, data, key)
  IN IF super.kind # "return" THEN super
     ELSE IF ~isinstance(data, "list")
       THEN Raises("JSONValidationError", _keyMessage(key, "is not an array: %s"))
     ELSE IF DOMAIN h.handlers = {} THEN Returns(data)
     ELSE IF ArrayHandler_empty(h, data)
       THEN Raises("JSONValidationError", _keyMessage(key, "should not be empty: %s"))
     ELSE ArrayHandler_elements(h, data, key, 1)

\* BaseHandler.__call__: handler(data, key) is self.validate(data, key) of
\* the handler's class.
Handler_call(h, data, key) ==
  CASE h.cls = "StringHandler" -> StringHandler_validate(h, data, key)
    [] h.cls = "NumberHandler" -> NumberHandler_validate(h, data, key)
    [] h.cls = "BooleanHandler" -> BooleanHandler_validate(h, data, key)
    [] h.cls = "NullHandler" -> NullHandler_validate(h, data, key)
    [] h.cls \in {"ObjectHandler", "PermissiveObjectHandler"} ->
         ObjectHandler_validate(h, data, key)
    [] h.cls = "ArrayHandler" -> ArrayHandler_validate(h, data, key)

----------------------------------------------------------------------------
(* json.loads, for texts without escapes, fractions, exponents and the     *)
(* NaN/Infinity literals.  A parse step yields [ok, val, end]: whether a   *)
(* value was decoded, the value, and the index after it.                   *)

Whitespace == {" ", "\t", "\n", "\r"}

ParseFail == [ok |-> FALSE, val |-> PyNone, end |-> 0]

Parsed(val, end) == [ok |-> TRUE, val |-> val, end |-> end]

DigitValue(c) == CHOOSE d \in 0..9 : Digits[d + 1] = c

IsDigit(s, i) == i <= Len(s) /\ \E d \in 1..10 : Digits[d] = s[i]

RECURSIVE SkipWhitespace(_, _)
SkipWhitespace(s, i) ==
  IF i <= Len(s) /\ s[i] \in Whitespace THEN SkipWhitespace(s, i + 1) ELSE i

RECURSIVE ScanDigits(_, _)
\* The index after the run of digits that starts at i.
ScanDigits(s, i) == IF IsDigit(s, i) THEN ScanDigits(s, i + 1) ELSE i

RECURSIVE DigitsValue(_, _, _)
\* The number written by the digits s[i..j].
DigitsValue(s, i, j) ==
  IF j < i THEN 0 ELSE 10 * DigitsValue(s, i, j - 1) + DigitValue(s[j])

RECURSIVE ScanString(_, _)
\* The index of the quote that closes the string whose content starts at i,
\* or 0 when the string is not terminated.
ScanString(s, i) ==
  IF i > Len(s) THEN 0
  ELSE IF s[i] = "\"" THEN i
  ELSE ScanString(s, i + 1)

\* An integer literal at i: -?(0|[1-9][0-9]*).
ParseNumber(s, i) ==
  LET neg == s[i] = "-"
      first == IF neg THEN i + 1 ELSE i
      end == IF IsDigit(s, first) /\ s[first] = "0" THEN first + 1
             ELSE ScanDigits(s, first)
      n == DigitsValue(s, first, end - 1)
  IN IF end = first THEN ParseFail
     ELSE Parsed(PyInt(IF neg THEN 0 - n ELSE n), end)

ParseString(s, i) ==
  LET close == ScanString(s, i + 1)
  IN IF close = 0 THEN ParseFail
     ELSE Parsed(PyUnicode(SubSeq(s, i + 1, close - 1)), close + 1)

RECURSIVE ParseValue(_, _)
RECURSIVE ParseArray(_, _, _)
RECURSIVE ParseObject(_, _, _)

\* The elements of an array from index i on, values holding those decoded
\* so far; i is where the next element must start.
ParseArray(s, i, values) ==
  LET value == ParseValue(s, i)
      sep == SkipWhitespace(s, value.end)
  IN IF ~value.ok \/ sep > Len(s) THEN ParseFail
     ELSE IF s[sep] = "]" THEN Parsed(PyList(Append(values, value.val)), sep + 1)
     ELSE IF s[sep] = ","
       THEN ParseArray(s, SkipWhitespace(s, sep + 1), Append(values, value.val))
     ELSE ParseFail

\* The pairs of an object from index i on, pairs holding those decoded so
\* far; i is where the next key must start.  A repeated key keeps its last
\* value.
ParseObject(s, i, pairs) ==
  IF i > Len(s) \/ s[i] # "\"" THEN ParseFail
  ELSE LET key == ParseString(s, i)
           colon == SkipWhitespace(s, key.end)
       IN IF ~key.ok \/ colon > Len(s) \/ s[colon] # ":" THEN ParseFail
          ELSE LET value == ParseValue(s, SkipWhitespace(s, colon + 1))
                   sep == SkipWhitespace(s, value.end)
                   next == [k \in (DOMAIN pairs) \cup {key.val.v} |->
                              IF k = key.val.v THEN value.val ELSE pairs[k]]
               IN IF ~value.ok \/ sep > Len(s) THEN ParseFail
                  ELSE IF s[sep] = "}" THEN Parsed(PyDict(next), sep + 1)
                  ELSE IF s[sep] = ","
                    THEN ParseObject(s, SkipWhitespace(s, sep + 1), next)
                  ELSE ParseFail

ParseValue(s, i) ==
  IF i > Len(s) THEN ParseFail
  ELSE CASE s[i] = "\"" -> ParseString(s, i)
         [] s[i] = "[" ->
              LET first == SkipWhitespace(s, i + 1)
              IN IF first <= Len(s) /\ s[first] = "]"
                   THEN Parsed(PyList(<<>>), first + 1)
                   ELSE ParseArray(s, first, <<>>)
         [] s[i] = "{" ->
              LET first == SkipWhitespace(s, i + 1)
              IN IF first <= Len(s) /\ s[first] = "}"
                   THEN Parsed(PyDict(<<>>), first + 1)
                   ELSE ParseObject(s, first, <<>>)
         [] s[i] = "n" ->
              IF startswith(SubSeq(s, i, Len(s)), <<"n", "u", "l", "l">>)
                THEN Parsed(PyNone, i + 4) ELSE ParseFail
         [] s[i] = "t" ->
              IF startswith(SubSeq(s, i, Len(s)), <<"t", "r", "u", "e">>)
                THEN Parsed(PyBool(TRUE), i + 4) ELSE ParseFail
         [] s[i] = "f" ->
              IF startswith(SubSeq(s, i, Len(s)), <<"f", "a", "l", "s", "e">>)
                THEN Parsed(PyBool(FALSE), i + 5) ELSE ParseFail
         [] s[i] = "-" \/ IsDigit(s, i) -> ParseNumber(s, i)
         [] OTHER -> ParseFail

\* json.loads(text): the decoded value, or no value when decoding raises
\* ValueError (no value at the start, or extra data after it).
loads(s) ==
  LET value == ParseValue(s, SkipWhitespace(s, 1))
  IN IF value.ok /\ SkipWhitespace(s, value.end) > Len(s) THEN value ELSE ParseFail

----------------------------------------------------------------------------
(* The validator object *)

\* JSONValidator.__init__: the compiled validator, or no validator when
\* json.loads raises on a schema given as text.
JSONValidator_init(example) ==
  IF isinstance(example, "basestring")
    THEN LET parsed == loads(example.v)
         IN IF parsed.ok THEN [ok |-> TRUE, validator |-> getValidator(parsed.val)]
            ELSE [ok |-> FALSE, validator |-> BaseHandler_init("", TRUE)]
    ELSE [ok |-> TRUE, validator |-> getValidator(example)]

\* JSONValidator.validate(data) on the compiled validator v.
JSONValidator_validate(v, data) ==
  IF isinstance(data, "basestring")
    THEN LET parsedData == loads(data.v)
         IN IF ~parsedData.ok
              THEN Raises("ValueError",
                          [fmt |-> "No JSON object could be decoded",
                           at |-> PyNone, rest |-> ""])
            ELSE IF ~Truthy(parsedData.val)
              THEN Raises("JSONError",
                          [fmt |-> "invalid JSON in %s", at |-> PyNone, rest |-> ""])
            ELSE Handler_call(v, parsedData.val, PyNone)
    ELSE Handler_call(v, data, PyNone)

ValidatorAfterValidate_learnsKeys(v, data) ==
  IF v.cls = "ObjectHandler" /\ type(data) = "dict"
    THEN [v EXCEPT !.validKeys = PySet(@.v \cup DOMAIN data.v)]
    ELSE [v EXCEPT !.required = FALSE]

\* self.validator after validate(data): the validate methods assign local
\* names only (data, handlers, nextkey, keyData, keydata, value, handler,
\* message, parsedData) and no attribute of a handler.
ValidatorAfterValidate(v, data) == v

----------------------------------------------------------------------------
(* Calls.  A thread passes data to validate (Call) and the call runs on    *)
(* the validator as it is then (Return); outcome keeps the last call a     *)
(* thread completed, until the caller has taken it (Consume).              *)

MaxThreads == 2
MaxLen == 2

Threads == 1..MaxThreads

NoCall == [k |-> "", v |-> 0]

NoOutcome == [done |-> FALSE, arg |-> NoCall, result |-> Returns(PyNone)]

Call(t, data) ==
  /\ pending[t] = NoCall
  /\ ~outcome[t].done
  /\ pending' = [pending EXCEPT ![t] = data]
  /\ UNCHANGED <<schema, keyOrder, validator, outcome>>

Return(t) ==
  /\ pending[t] # NoCall
  /\ outcome' = [outcome EXCEPT ![t] =
                   [done |-> TRUE, arg |-> pending[t],
                    result |-> JSONValidator_validate(validator, pending[t])]]
  /\ validator' = ValidatorAfterValidate(validator, pending[t])
  /\ pending' = [pending EXCEPT ![t] = NoCall]
  /\ UNCHANGED <<schema, keyOrder>>

Consume(t) ==
  /\ outcome[t].done
  /\ outcome' = [outcome EXCEPT ![t] = NoOutcome]
  /\ UNCHANGED <<schema, keyOrder, validator, pending>>

\* The state after JSONValidator(example) returned, for an example of
\* Schemas and an iteration order of Orders.
Constructed(Schemas, Orders) ==
  /\ schema \in Schemas
  /\ JSONValidator_init(schema).ok
  /\ validator = JSONValidator_init(schema).validator
  /\ keyOrder \in Orders
  /\ pending = [t \in Threads |-> NoCall]
  /\ outcome = [t \in Threads |-> NoOutcome]

----------------------------------------------------------------------------
(* Strings *)

s_a == <<"a">>
s_b == <<"b">>
s_c == <<"c">>
s_x == <<"x">>
s_string == <<"s", "t", "r", "i", "n", "g">>
s_stringOpt == <<"s", "t", "r", "i", "n", "g", "?">>
s_number == <<"n", "u", "m", "b", "e", "r">>
s_numberOpt == <<"n", "u", "m", "b", "e", "r", "?">>
s_bool == <<"b", "o", "o", "l">>
s_boolOpt == <<"b", "o", "o", "l", "?">>

\* The dictionary {key: value}.
Dict1(key, value) == [k \in {key} |-> value]

\* The sequences over S of length at most n.
SeqsUpTo(S, n) == UNION {[1..m -> S] : m \in 0..n}

\* The dictionaries with the given choice of values for each key of choices
\* (a key may be left out).
DictsOf(choices) ==
  UNION {{f \in [keys -> UNION {choices[k] : k \in keys}] :
            \A k \in keys : f[k] \in choices[k]} :
         keys \in SUBSET DOMAIN choices}

----------------------------------------------------------------------------
(* Array schemas: validators compiled from an array of at most MaxLen      *)
(* examples, called with arrays of at most MaxLen elements and with some   *)
(* values that are no arrays.                                              *)

ArrayExamples ==
  {PyStr(s_string), PyStr(s_stringOpt), PyInt(1), PyStr(s_numberOpt), PyNone,
   PyDict(Dict1(s_a, PyInt(1))), PyDict(Dict1(s_a, PyStr(s_string))),
   PermissiveObject(Dict1(s_a, PyInt(1)))}

ArraySchemas == {PyList(examples) : examples \in SeqsUpTo(ArrayExamples, MaxLen)}

ArrayElements ==
  {PyStr(s_x), PyUnicode(<<>>), PyInt(1), PyBool(TRUE), PyNone,
   PyDict(Dict1(s_a, PyInt(1))), PyDict(Dict1(s_a, PyStr(s_x)))}

ArrayData ==
  {PyList(elements) : elements \in SeqsUpTo(ArrayElements, MaxLen)}
    \cup {PyDict(<<>>), PyInt(1), PyStr(<<>>)}

InitArray == Constructed(ArraySchemas, {<<s_a, s_b>>})

NextArray ==
  \/ \E data \in ArrayData : Call(1, data)
  \/ Return(1)
  \/ Consume(1)

SpecArray == InitArray /\ [][NextArray]_vars

----------------------------------------------------------------------------
(* Claims about arrays (SpecArray) *)

\* The call thread 1 completed last, when it has one.
Done == outcome[1].done
Arg == outcome[1].arg
Result == outcome[1].result
Accepted == Result.kind = "return"

Fails(rest) ==
  /\ Result.kind = "JSONValidationError"
  /\ Result.message.rest = rest

InvalidTypeFmt == "Element at %s has invalid type %s: %s"

\* The type tag of a data value and of a child node, as the six tags
\* string, number, boolean, null, object, array.
ValueTag(x) ==
  CASE type(x) \in StringTypes -> "string"
    [] type(x) \in {"int", "long", "float"} -> "number"
    [] type(x) = "bool" -> "boolean"
    [] type(x) = "NoneType" -> "null"
    [] type(x) \in {"dict", "PermissiveObject"} -> "object"
    [] type(x) = "list" -> "array"

NodeTag(h) ==
  CASE h.cls = "StringHandler" -> "string"
    [] h.cls = "NumberHandler" -> "number"
    [] h.cls = "BooleanHandler" -> "boolean"
    [] h.cls = "NullHandler" -> "null"
    [] h.cls \in {"ObjectHandler", "PermissiveObjectHandler"} -> "object"
    [] h.cls = "ArrayHandler" -> "array"

IsArrayCall == Done /\ validator.cls = "ArrayHandler" /\ type(schema) = "list"

\* C1: the validator of ["string", 1] accepts every array of strings and
\* numbers, the empty array included, and rejects every value that is no
\* array and every array with a boolean element.
C1_StringNumberArray ==
  (Done /\ schema = PyList(<<PyStr(s_string), PyInt(1)>>)) =>
    /\ (/\ type(Arg) = "list"
        /\ \A i \in 1..Len(Arg.v) : ValueTag(Arg.v[i]) \in {"string", "number"})
         => Accepted
    /\ type(Arg) # "list" => ~Accepted
    /\ (/\ type(Arg) = "list"
        /\ \E i \in 1..Len(Arg.v) : ValueTag(Arg.v[i]) = "boolean")
         => ~Accepted

\* A node accepts absence/null: it returns when called with None.
AcceptsNull(h) == Handler_call(h, PyNone, PyNone).kind = "return"

Children == {validator.handlers[t] : t \in DOMAIN validator.handlers}

Positions(cls) ==
  {i \in 1..Len(schema.v) : getValidator(schema.v[i]).cls = cls}

Last(S) == CHOOSE i \in S : \A j \in S : j <= i

C10_RoutedByTypeTag ==
  (/\ IsArrayCall /\ type(Arg) = "list"
   /\ Result.kind = "JSONValidationError"
   /\ Result.message.fmt = InvalidTypeFmt) =>
    \A i \in 1..Len(Arg.v) :
      Result.message.at = PyStr(IntToStr(i - 1)) =>
        ~(\E h \in Children : NodeTag(h) = ValueTag(Arg.v[i]))

----------------------------------------------------------------------------
(* Object schemas: validators compiled from a Strict or Permissive object  *)
(* with fields among a and b, called with objects with keys among a, b and *)
(* c and with some values that are no objects.                             *)

FieldExamples ==
  [key \in {s_a, s_b} |->
     IF key = s_a
       THEN {PyStr(s_string), PyStr(s_stringOpt), PyStr(s_number),
             PyStr(s_numberOpt), PyStr(s_bool), PyStr(s_boolOpt), PyNone,
             PyInt(1), PyStr(<<>>), PyBool(TRUE),
             PyDict(Dict1(s_b, PyStr(s_string))),
             PyDict(Dict1(s_b, PyStr(s_numberOpt)))}
       ELSE {PyStr(s_string), PyInt(1)}]

ObjectSchemas ==
  {PyDict(f) : f \in DictsOf(FieldExamples)}
    \cup {PermissiveObject(f) : f \in DictsOf(FieldExamples)}

FieldValues ==
  [key \in {s_a, s_b, s_c} |->
     CASE key = s_a ->
            {PyNone, PyBool(FALSE), PyBool(TRUE), PyInt(0), PyInt(1), PyFloat(0),
             PyStr(<<>>), PyStr(s_x), PyList(<<>>), PyDict(<<>>),
             PyDict(Dict1(s_b, PyStr(s_x)))}
       [] key = s_b -> {PyNone, PyStr(s_x), PyInt(1)}
       [] key = s_c -> {PyInt(1)}]

ObjectData ==
  {PyDict(f) : f \in DictsOf(FieldValues)} \cup {PyInt(1), PyList(<<>>), PyNone}

InitObject == Constructed(ObjectSchemas, {<<s_a, s_b>>, <<s_b, s_a>>})

NextObject ==
  \/ \E data \in ObjectData : Call(1, data)
  \/ Return(1)
  \/ Consume(1)

SpecObject == InitObject /\ [][NextObject]_vars

----------------------------------------------------------------------------
(* Claims about objects and their fields (SpecObject) *)

IsObjectCall ==
  /\ Done
  /\ validator.cls \in {"ObjectHandler", "PermissiveObjectHandler"}
  /\ type(schema) \in {"dict", "PermissiveObject"}
  /\ type(Arg) = "dict"

Declared == DOMAIN schema.v

\* The declared field key is valid in the input: its node returns for the
\* value the input has there (None when the key is absent).
FieldValid(key) ==
  Handler_call(validator.handlers[key], DictGet(Arg, key), PyStr(key)).kind
    = "return"

ExtraKeys == (DOMAIN Arg.v) \ Declared

Missing(key) == key \notin DOMAIN Arg.v \/ type(Arg.v[key]) = "NoneType"

\* C2 as stated: a Strict Object node, whatever its declared field set, the
\* empty one included, fails an input whose declared fields are valid with
\* "contains an illegal key" exactly when the input has a key outside the
\* declared set; a Permissive Object node accepts such an input.
C2_IllegalKeyAsStated ==
  (IsObjectCall /\ \A key \in Declared : FieldValid(key)) =>
    IF validator.cls = "ObjectHandler"
      THEN Fails("contains an illegal key: %s") <=> ExtraKeys # {}
      ELSE Accepted

\* C2 amended: a Strict Object node with at least one declared field fails
\* an input whose declared fields are valid with "contains an illegal key"
\* exactly when the input has a key outside the declared set, and accepts
\* it otherwise; a Strict Object node without declared fields (schema {})
\* accepts every mapping, whatever its keys; a Permissive Object node
\* accepts every mapping whose declared fields are valid.
C2_IllegalKey ==
  (IsObjectCall /\ \A key \in Declared : FieldValid(key)) =>
    IF validator.cls = "ObjectHandler" /\ Declared # {}
      THEN IF ExtraKeys # {} THEN Fails("contains an illegal key: %s")
           ELSE Accepted
      ELSE Accepted

\* A Strict Object node without declared fields accepted an input with keys.
C2_Witness ==
  /\ IsObjectCall
  /\ validator.cls = "ObjectHandler" /\ Declared = {}
  /\ ExtraKeys # {}
  /\ Accepted

NullFields == {key \in Declared : type(schema.v[key]) = "NoneType"}

\* C3 as stated: a field whose example is null rejects every input in
\* which the key is absent and every input with a non-null value there.
C3_NullRejectsAbsenceAsStated ==
  IsObjectCall =>
    \A f \in NullFields :
      (f \notin DOMAIN Arg.v \/ type(Arg.v[f]) # "NoneType") => ~Accepted

\* C3 amended: a field whose example is null rejects every input with a
\* non-null value there, and accepts null and absence alike: an input in
\* which the key is absent or null is accepted when its other declared
\* fields are valid and it has no illegal key.
C3_NullField ==
  IsObjectCall =>
    \A f \in NullFields :
      /\ ~Missing(f) => Result.kind = "JSONValidationError"
      /\ (/\ Missing(f)
          /\ \A key \in Declared \ {f} : FieldValid(key)
          /\ (validator.cls = "ObjectHandler" => ExtraKeys = {}))
           => Accepted

\* An input without the key of a null field was accepted.
C3_Witness ==
  /\ IsObjectCall
  /\ \E f \in NullFields : f \notin DOMAIN Arg.v
  /\ Accepted

\* C5: a String node accepts a non-null value exactly when it is a string
\* and fails every other with "is not a string"; a Number node accepts a
\* non-null value exactly when it is a number and fails every other with
\* "is not a number".  Stated for an object with the one field f, and an
\* input with the one key f.
C5_StringAndNumberNodes ==
  IsObjectCall =>
    \A f \in Declared :
      (Declared = {f} /\ DOMAIN Arg.v = {f} /\ type(Arg.v[f]) # "NoneType") =>
        /\ validator.handlers[f].cls = "StringHandler" =>
             IF ValueTag(Arg.v[f]) = "string" THEN Accepted
             ELSE Fails("is not a string: %s")
        /\ validator.handlers[f].cls = "NumberHandler" =>
             IF ValueTag(Arg.v[f]) = "number" THEN Accepted
             ELSE Fails("is not a number: %s")

RequiredMissing(path) ==
  /\ Result.kind = "JSONValidationError"
  /\ Result.message = [fmt |-> "Required field with key \"%s\" is missing",
                       at |-> PyStr(path), rest |-> ""]

StringFields(example) ==
  {key \in DOMAIN example.v : type(example.v[key]) \in StringTypes}

Optional(example) == endswith(example.v, <<"?">>)

----------------------------------------------------------------------------
(* Text data: validators of a few schemas, two of them given as text,      *)
(* called with JSON texts.                                                 *)

\* Texts json.loads cannot decode: (empty), {, [1, nul, x, 1 2, [1,], {"a"}, 01, -
MalformedTexts ==
  {<<>>,
   <<"{">>,
   <<"[", "1">>,
   <<"n", "u", "l">>,
   <<"x">>,
   <<"1", " ", "2">>,
   <<"[", "1", ",", "]">>,
   <<"{", "\"", "a", "\"", "}">>,
   <<"0", "1">>,
   <<"-">>}

\* Texts that decode to a false value: 0, false, null, "", [], {}, and [ ] between spaces.
FalsyTexts ==
  {<<"0">>,
   <<"f", "a", "l", "s", "e">>,
   <<"n", "u", "l", "l">>,
   <<"\"", "\"">>,
   <<"[", "]">>,
   <<"{", "}">>,
   <<" ", "[", " ", "]", " ">>}

\* Texts that decode to a true value: 1, true, "x", [1], ["x",1], {"a":1}, {"a": null}, -1, [[]], {"a":1,"a":"x"}
TruthyTexts ==
  {<<"1">>,
   <<"t", "r", "u", "e">>,
   <<"\"", "x", "\"">>,
   <<"[", "1", "]">>,
   <<"[", "\"", "x", "\"", ",", "1", "]">>,
   <<"{", "\"", "a", "\"", ":", "1", "}">>,
   <<"{", "\"", "a", "\"", ":", " ", "n", "u", "l", "l", "}">>,
   <<"-", "1">>,
   <<"[", "[", "]", "]">>,
   <<"{", "\"", "a", "\"", ":", "1", ",", "\"", "a", "\"", ":", "\"", "x", "\"", "}">>}

Texts == MalformedTexts \cup FalsyTexts \cup TruthyTexts

TextData == {PyStr(text) : text \in Texts} \cup {PyUnicode(text) : text \in Texts}

TextSchemas ==
  {PyList(<<>>), PyDict(<<>>), PyInt(1), PyNone,
   PyList(<<PyStr(s_string), PyInt(1)>>),
   PyDict(Dict1(s_a, PyStr(s_stringOpt))),
   PyStr(<<"[", "\"", "s", "t", "r", "i", "n", "g", "\"", "]">>),
   PyStr(<<"{", "\"", "a", "\"", ":", " ", "1", "}">>)}

InitText == Constructed(TextSchemas, {<<s_a, s_b>>})

NextText ==
  \/ \E data \in TextData : Call(1, data)
  \/ Return(1)
  \/ Consume(1)

SpecText == InitText /\ [][NextText]_vars

\* C4: a validate call with text data fails with JSONError when the text
\* cannot be parsed as JSON and when it parses to a false value, whatever
\* the schema.
C4_TextFailsWithJSONError ==
  (Done /\ isinstance(Arg, "basestring")) =>
    LET parsedData == loads(Arg.v)
    IN (~parsedData.ok \/ ~Truthy(parsedData.val)) => Result.kind = "JSONError"

----------------------------------------------------------------------------
(* Threads calling one validator: validators of objects and arrays, each   *)
(* thread calling with structured values and texts.                        *)

SharedSchemas ==
  {PyDict(<<>>),
   PyDict(Dict1(s_a, PyStr(s_string))),
   PyDict([key \in {s_a, s_b} |->
             IF key = s_a THEN PyStr(s_numberOpt) ELSE PyInt(1)]),
   PermissiveObject(Dict1(s_a, PyInt(1))),
   PyList(<<PyStr(s_string), PyInt(1)>>),
   PyList(<<PyNone, PyDict(Dict1(s_a, PyInt(1)))>>)}

SharedData ==
  {PyDict(<<>>),
   PyDict(Dict1(s_a, PyStr(s_x))),
   PyDict([key \in {s_a, s_c} |-> PyInt(1)]),
   PyDict([key \in {s_a, s_b} |-> PyInt(1)]),
   PyList(<<>>),
   PyList(<<PyStr(s_x), PyInt(1)>>),
   PyList(<<PyDict(Dict1(s_a, PyInt(1)))>>),
   PyNone,
   PyStr(<<"{", "\"", "a", "\"", ":", "1", "}">>),
   PyStr(<<"[", "1">>)}

Init == Constructed(SharedSchemas, {<<s_a, s_b>>, <<s_b, s_a>>})

Next ==
  \E t \in Threads :
    \/ \E data \in SharedData : Call(t, data)
    \/ Return(t)
    \/ Consume(t)

Spec == Init /\ [][Next]_vars

====
